---- MODULE Spec2Model ----
(***************************************************************************)
(* Battery-level indicator of GBC_Battery_LED (main.c): a main loop that   *)
(* samples the supply voltage, classifies it with hysteresis (volt_comp),  *)
(* debounces a change with a countdown decremented by the Timer0 overflow  *)
(* interrupt, and writes the LED port (setLED).                            *)
(*                                                                         *)
(* Voltages are integers in microvolts.  The target is an 8-bit AVR, where *)
(* double is the 32-bit float: a voltage and a threshold written with the  *)
(* same decimal are the same number, so the thresholds are grid points.    *)
(* NaN stands for a float that compares false with everything.             *)
(***************************************************************************)
EXTENDS Integers, FiniteSets

VARIABLES
    adc_val,         \* main.c:58   last raw ADC code read
    voltage,         \* main.c:59   last value returned by getVoltage
    timeout,         \* main.c:60   16-bit debounce countdown, shared with the ISR
    batState,        \* main.c:61   latest classification
    batStateLast,    \* main.c:61   recorded classification
    state,           \* main.c:63   main state machine state
    PORTB,           \* LED port
    pc,              \* position of the main loop
    ret,             \* main.c:156  return value of the last volt_comp call
    firstZero,       \* register: the first byte read of timeout was zero
    intServed,       \* an interrupt was served since main's last instruction
    armed,           \* history: a debounce window was armed since the last LED write
    voltageDefined,  \* history: voltage holds a value getVoltage returned by a return statement
    persist          \* environment: the level every sample classifies to, or NONE

vars == <<adc_val, voltage, timeout, batState, batStateLast, state, PORTB, pc,
          ret, firstZero, intServed, armed, voltageDefined, persist>>

----------------------------------------------------------------------------
(* Constants of main.c *)

MIN_BAT == 0
MED_BAT == 1
MAX_BAT == 2

INIT == 0
MEASURE == 1
WAITING == 2
CHANGING == 3

THRES_RED_LOW == 2800000
THRES_RED_HIGH == 3000000
THRES_YELLOW_LOW == 3100000
THRES_YELLOW_HIGH == 3300000

\* the plausibility envelope of the INIT loop, 4.2f and 2.3f
PLAUSIBLE_MAX == 4200000
PLAUSIBLE_MIN == 2300000

\* 1.13f, the reference voltage of getVoltage
VREF == 1130000

\* the two values written to timeout: 0x10 and 0x2f0
TIMEOUT_INIT == 16
TIMEOUT_DEBOUNCE == 752

\* PORTB after Init_GPIO: PORTB |= (1<<RED_LED) | (1<<GREEN_LED)
PORTB_RESET == 24
PORT_GREEN == 8
PORT_YELLOW == 0
PORT_RED == 16

Levels == {MIN_BAT, MED_BAT, MAX_BAT}

NaN == -1
NONE == -2

----------------------------------------------------------------------------
(* Bounds of the model *)

\* test voltages lie within Spread microvolts of every threshold
Spread == 2

----------------------------------------------------------------------------
(* Float comparisons: false as soon as one operand is NaN *)

FLt(a, b) == a # NaN /\ b # NaN /\ a < b
FLe(a, b) == a # NaN /\ b # NaN /\ a <= b
FGt(a, b) == a # NaN /\ b # NaN /\ a > b
FGe(a, b) == a # NaN /\ b # NaN /\ a >= b

----------------------------------------------------------------------------
(* Inputs *)

\* Raw ADC codes, one per voltage range the program distinguishes:
\*   200 -> 5.79 V (> 4.2)        340 -> 3.40 V (>= 3.3)
\*   362 -> 3.20 V ([3.1, 3.3))   380 -> 3.05 V ([3.0, 3.1))
\*   399 -> 2.90 V ((2.8, 3.0))   420 -> 2.76 V ([2.3, 2.8])
\*   600 -> 1.93 V (< 2.3)        0   -> no conversion completed yet
RawCodes == {0, 200, 340, 362, 380, 399, 420, 600}

\* double getVoltage(): with adc_val == 0 control reaches the end of the
\* function without a return statement and the caller reads whatever the
\* return registers hold: undef.
getVoltage(raw, undef) ==
    IF raw > 0 THEN (VREF * 1024) \div raw ELSE undef

\* What the return registers can hold: any float (NaN included).
UndefVolts == {NaN} \cup {getVoltage(r, NaN) : r \in RawCodes \ {0}}

----------------------------------------------------------------------------
(* uint8_t volt_comp(double val), switching on the global batState *)

\* volt_comp with the rising red threshold taken exclusive (> for >= on line 187)
volt_comp_exclusive(bs, val) ==
    CASE bs = MAX_BAT ->
            IF FLt(val, THRES_YELLOW_LOW) /\ FGt(val, THRES_RED_LOW) THEN MED_BAT
            ELSE IF FLe(val, THRES_RED_LOW) THEN MIN_BAT
            ELSE MAX_BAT
      [] bs = MED_BAT ->
            IF FLe(val, THRES_RED_LOW) THEN MIN_BAT
            ELSE IF FGe(val, THRES_YELLOW_HIGH) THEN MAX_BAT
            ELSE MED_BAT
      [] bs = MIN_BAT ->
            IF FGt(val, THRES_RED_HIGH) /\ FLt(val, THRES_YELLOW_HIGH) THEN MED_BAT
            ELSE IF FGe(val, THRES_YELLOW_HIGH) THEN MAX_BAT
            ELSE MIN_BAT
      [] OTHER -> bs

\* volt_comp raising the level by one at or above YELLOW_HIGH, from High too
volt_comp_step_up(bs, val) ==
    CASE bs = MAX_BAT ->
            IF FLt(val, THRES_YELLOW_LOW) /\ FGt(val, THRES_RED_LOW) THEN MED_BAT
            ELSE IF FLe(val, THRES_RED_LOW) THEN MIN_BAT
            ELSE IF FGe(val, THRES_YELLOW_HIGH) THEN bs + 1
            ELSE MAX_BAT
      [] bs = MED_BAT ->
            IF FLe(val, THRES_RED_LOW) THEN MIN_BAT
            ELSE IF FGe(val, THRES_YELLOW_HIGH) THEN MAX_BAT
            ELSE MED_BAT
      [] bs = MIN_BAT ->
            IF FGe(val, THRES_RED_HIGH) /\ FLt(val, THRES_YELLOW_HIGH) THEN MED_BAT
            ELSE IF FGe(val, THRES_YELLOW_HIGH) THEN MAX_BAT
            ELSE MIN_BAT
      [] OTHER -> bs

\* volt_comp with the falling yellow threshold taken inclusive (<= for < on line 161)
volt_comp_falling_inclusive(bs, val) ==
    CASE bs = MAX_BAT ->
            IF FLe(val, THRES_YELLOW_LOW) /\ FGt(val, THRES_RED_LOW) THEN MED_BAT
            ELSE IF FLe(val, THRES_RED_LOW) THEN MIN_BAT
            ELSE MAX_BAT
      [] bs = MED_BAT ->
            IF FLe(val, THRES_RED_LOW) THEN MIN_BAT
            ELSE IF FGe(val, THRES_YELLOW_HIGH) THEN MAX_BAT
            ELSE MED_BAT
      [] bs = MIN_BAT ->
            IF FGe(val, THRES_RED_HIGH) /\ FLt(val, THRES_YELLOW_HIGH) THEN MED_BAT
            ELSE IF FGe(val, THRES_YELLOW_HIGH) THEN MAX_BAT
            ELSE MIN_BAT
      [] OTHER -> bs

\* volt_comp whose default case leaves ret at its initial MIN_BAT
volt_comp_default_low(bs, val) ==
    CASE bs = MAX_BAT ->
            IF FLt(val, THRES_YELLOW_LOW) /\ FGt(val, THRES_RED_LOW) THEN MED_BAT
            ELSE IF FLe(val, THRES_RED_LOW) THEN MIN_BAT
            ELSE MAX_BAT
      [] bs = MED_BAT ->
            IF FLe(val, THRES_RED_LOW) THEN MIN_BAT
            ELSE IF FGe(val, THRES_YELLOW_HIGH) THEN MAX_BAT
            ELSE MED_BAT
      [] bs = MIN_BAT ->
            IF FGe(val, THRES_RED_HIGH) /\ FLt(val, THRES_YELLOW_HIGH) THEN MED_BAT
            ELSE IF FGe(val, THRES_YELLOW_HIGH) THEN MAX_BAT
            ELSE MIN_BAT
      [] OTHER -> MIN_BAT

\* volt_comp rising from Low by one level only, whatever the voltage
volt_comp_one_step(bs, val) ==
    CASE bs = MAX_BAT ->
            IF FLt(val, THRES_YELLOW_LOW) /\ FGt(val, THRES_RED_LOW) THEN MED_BAT
            ELSE IF FLe(val, THRES_RED_LOW) THEN MIN_BAT
            ELSE MAX_BAT
      [] bs = MED_BAT ->
            IF FLe(val, THRES_RED_LOW) THEN MIN_BAT
            ELSE IF FGe(val, THRES_YELLOW_HIGH) THEN MAX_BAT
            ELSE MED_BAT
      [] bs = MIN_BAT ->
            IF FGe(val, THRES_RED_HIGH) THEN MED_BAT
            ELSE IF FGe(val, THRES_YELLOW_HIGH) THEN MAX_BAT
            ELSE MIN_BAT
      [] OTHER -> bs

\* volt_comp as the source has it (lines 154-202)
volt_comp(bs, val) ==
    CASE bs = MAX_BAT ->
            IF FLt(val, THRES_YELLOW_LOW) /\ FGt(val, THRES_RED_LOW) THEN MED_BAT
            ELSE IF FLe(val, THRES_RED_LOW) THEN MIN_BAT
            ELSE MAX_BAT
      [] bs = MED_BAT ->
            IF FLe(val, THRES_RED_LOW) THEN MIN_BAT
            ELSE IF FGe(val, THRES_YELLOW_HIGH) THEN MAX_BAT
            ELSE MED_BAT
      [] bs = MIN_BAT ->
            IF FGe(val, THRES_RED_HIGH) /\ FLt(val, THRES_YELLOW_HIGH) THEN MED_BAT
            ELSE IF FGe(val, THRES_YELLOW_HIGH) THEN MAX_BAT
            ELSE MIN_BAT
      [] OTHER -> bs

\* setLED with the Medium case writing the value of the High case
setLED_same_value(batteryState, port) ==
    CASE batteryState = MAX_BAT -> PORT_GREEN
      [] batteryState = MED_BAT -> PORT_GREEN
      [] batteryState = MIN_BAT -> PORT_RED
      [] OTHER -> port

\* void setLED(uint8_t batteryState): the new value of PORTB
setLED(batteryState, port) ==
    CASE batteryState = MAX_BAT -> PORT_GREEN
      [] batteryState = MED_BAT -> PORT_YELLOW
      [] batteryState = MIN_BAT -> PORT_RED
      [] OTHER -> port

\* the condition of the INIT loop: voltage > 4.2f || voltage < 2.3f
Implausible(v) == FGt(v, PLAUSIBLE_MAX) \/ FLt(v, PLAUSIBLE_MIN)

----------------------------------------------------------------------------
(* The 16-bit timeout is accessed one byte at a time *)

Lo(x) == x % 256
Hi(x) == x \div 256
WithLo(x, b) == Hi(x) * 256 + b
WithHi(x, b) == b * 256 + Lo(x)

\* positions between the two byte accesses of one access to timeout
MidAccess == {"init_lo", "init_hi", "meas_lo", "meas_hi", "wait_lo", "wait_hi"}

----------------------------------------------------------------------------
(* The level a port value shows, NONE before the first write *)

Shown ==
    CASE PORTB = PORT_GREEN -> MAX_BAT
      [] PORTB = PORT_YELLOW -> MED_BAT
      [] PORTB = PORT_RED -> MIN_BAT
      [] OTHER -> NONE

----------------------------------------------------------------------------

\* globals as initialised, after Init_GPIO, Init_Timer, Init_ADC and sei()
Init ==
    /\ adc_val = 0
    /\ voltage = 0
    /\ timeout = 0
    /\ batState = MAX_BAT
    /\ batStateLast = MAX_BAT
    /\ state = INIT
    /\ PORTB = PORTB_RESET
    /\ pc = "switch"
    /\ ret = MIN_BAT
    /\ firstZero = FALSE
    /\ intServed = FALSE
    /\ armed = FALSE
    /\ voltageDefined = TRUE
    /\ persist = NONE

\* voltage = getVoltage()
Sample(raw, undef) ==
    /\ adc_val' = raw
    /\ voltage' = getVoltage(raw, undef)
    /\ voltageDefined' = (raw > 0)

\* case INIT, one pass of the loop body (lines 79-84)
InitSample ==
    /\ pc = "switch" /\ state = INIT
    /\ Implausible(voltage)
    /\ \E raw \in RawCodes, undef \in UndefVolts :
          /\ Sample(raw, undef)
          /\ batStateLast' = batState
          /\ ret' = volt_comp(batState, getVoltage(raw, undef))
          /\ batState' = volt_comp(batState, getVoltage(raw, undef))
    /\ intServed' = FALSE
    /\ UNCHANGED <<timeout, state, PORTB, pc, firstZero, armed, persist>>

\* case INIT, the loop is left: setLED(batState), then timeout = 0x10 begins
InitCommit ==
    /\ pc = "switch" /\ state = INIT
    /\ ~Implausible(voltage)
    /\ PORTB' = setLED(batState, PORTB)
    /\ pc' = "init_arm"
    /\ armed' = FALSE
    /\ intServed' = FALSE
    /\ UNCHANGED <<adc_val, voltage, timeout, batState, batStateLast, state, ret,
                   firstZero, voltageDefined, persist>>

\* the value being stored to timeout at this position
Stored == IF pc \in {"init_arm", "init_lo", "init_hi"} THEN TIMEOUT_INIT
          ELSE TIMEOUT_DEBOUNCE

\* first byte store of timeout = 0x10 / timeout = 0x2f0, in the order the build chose
ArmFirst ==
    /\ pc \in {"init_arm", "meas_arm"}
    /\ \/ /\ timeout' = WithLo(timeout, Lo(Stored))
          /\ pc' = IF pc = "init_arm" THEN "init_lo" ELSE "meas_lo"
       \/ /\ timeout' = WithHi(timeout, Hi(Stored))
          /\ pc' = IF pc = "init_arm" THEN "init_hi" ELSE "meas_hi"
    /\ intServed' = FALSE
    /\ UNCHANGED <<adc_val, voltage, batState, batStateLast, state, PORTB, ret,
                   firstZero, armed, voltageDefined, persist>>

\* second byte store; then state = MEASURE and fall through into case MEASURE
\* (line 87), or state = WAITING and break (lines 96, 100)
ArmSecond ==
    /\ pc \in {"init_lo", "init_hi", "meas_lo", "meas_hi"}
    /\ timeout' = IF pc \in {"init_lo", "meas_lo"}
                  THEN WithHi(timeout, Hi(Stored))
                  ELSE WithLo(timeout, Lo(Stored))
    /\ IF pc \in {"init_lo", "init_hi"}
       THEN state' = MEASURE /\ pc' = "measure"
       ELSE state' = WAITING /\ pc' = "switch"
    /\ intServed' = FALSE
    /\ UNCHANGED <<adc_val, voltage, batState, batStateLast, PORTB, ret,
                   firstZero, armed, voltageDefined, persist>>

\* case MEASURE calling setLED itself as soon as it has classified the sample
MeasureBodyEager(raw, undef) ==
    /\ pc = "measure" \/ (pc = "switch" /\ state = MEASURE)
    /\ Sample(raw, undef)
    /\ ret' = volt_comp(batState, getVoltage(raw, undef))
    /\ batState' = volt_comp(batState, getVoltage(raw, undef))
    /\ PORTB' = setLED(volt_comp(batState, getVoltage(raw, undef)), PORTB)
    /\ IF volt_comp(batState, getVoltage(raw, undef)) # batStateLast
       THEN /\ batStateLast' = volt_comp(batState, getVoltage(raw, undef))
            /\ pc' = "meas_arm"
            /\ armed' = TRUE
            /\ UNCHANGED state
       ELSE /\ state' = CHANGING
            /\ pc' = "switch"
            /\ UNCHANGED <<batStateLast, armed>>
    /\ intServed' = FALSE
    /\ UNCHANGED <<timeout, firstZero>>

\* case MEASURE (lines 90-100), up to the store to timeout
MeasureBody(raw, undef) ==
    /\ pc = "measure" \/ (pc = "switch" /\ state = MEASURE)
    /\ Sample(raw, undef)
    /\ ret' = volt_comp(batState, getVoltage(raw, undef))
    /\ batState' = volt_comp(batState, getVoltage(raw, undef))
    /\ IF volt_comp(batState, getVoltage(raw, undef)) # batStateLast
       THEN /\ batStateLast' = volt_comp(batState, getVoltage(raw, undef))
            /\ pc' = "meas_arm"
            /\ armed' = TRUE
            /\ UNCHANGED state
       ELSE /\ state' = CHANGING
            /\ pc' = "switch"
            /\ UNCHANGED <<batStateLast, armed>>
    /\ intServed' = FALSE
    /\ UNCHANGED <<timeout, PORTB, firstZero>>

Measure ==
    /\ persist = NONE
    /\ \E raw \in RawCodes, undef \in UndefVolts : MeasureBody(raw, undef)
    /\ UNCHANGED persist

\* case WAITING: first byte load of timeout == 0, in the order the build chose
WaitFirst ==
    /\ pc = "switch" /\ state = WAITING
    /\ \/ firstZero' = (Lo(timeout) = 0) /\ pc' = "wait_lo"
       \/ firstZero' = (Hi(timeout) = 0) /\ pc' = "wait_hi"
    /\ intServed' = FALSE
    /\ UNCHANGED <<adc_val, voltage, timeout, batState, batStateLast, state, PORTB,
                   ret, armed, voltageDefined, persist>>

\* the WAITING test comparing only the byte it loads last
WaitSecondLastByte ==
    /\ pc \in {"wait_lo", "wait_hi"}
    /\ LET second == IF pc = "wait_lo" THEN Hi(timeout) ELSE Lo(timeout)
       IN  state' = IF second = 0 THEN MEASURE ELSE WAITING
    /\ pc' = "switch"
    /\ firstZero' = FALSE
    /\ intServed' = FALSE
    /\ UNCHANGED <<adc_val, voltage, timeout, batState, batStateLast, PORTB,
                   ret, armed, voltageDefined, persist>>

\* case WAITING: second byte load and the comparison (lines 102-106)
WaitSecond ==
    /\ pc \in {"wait_lo", "wait_hi"}
    /\ LET second == IF pc = "wait_lo" THEN Hi(timeout) ELSE Lo(timeout)
       IN  state' = IF firstZero /\ second = 0 THEN MEASURE ELSE WAITING
    /\ pc' = "switch"
    /\ firstZero' = FALSE
    /\ intServed' = FALSE
    /\ UNCHANGED <<adc_val, voltage, timeout, batState, batStateLast, PORTB,
                   ret, armed, voltageDefined, persist>>

\* case CHANGING (lines 108-111)
Change ==
    /\ pc = "switch" /\ state = CHANGING
    /\ PORTB' = setLED(batState, PORTB)
    /\ state' = MEASURE
    /\ armed' = FALSE
    /\ intServed' = FALSE
    /\ UNCHANGED <<adc_val, voltage, timeout, batState, batStateLast, pc, ret,
                   firstZero, voltageDefined, persist>>

\* the ISR without its decrement
TickNoDecrement ==
    /\ pc \in MidAccess => ~intServed
    /\ intServed' = (pc \in MidAccess)
    /\ UNCHANGED <<adc_val, voltage, timeout, batState, batStateLast, state, PORTB,
                   pc, ret, firstZero, armed, voltageDefined, persist>>

\* ISR(TIM0_OVF_vect).  It runs with interrupts disabled, so it is atomic; after
\* it returns the AVR executes one instruction of main before it serves the next
\* interrupt, so at most one tick falls between two adjacent byte accesses.
Tick ==
    /\ pc \in MidAccess => ~intServed
    /\ timeout' = IF timeout > 0 THEN timeout - 1 ELSE timeout
    /\ intServed' = (pc \in MidAccess)
    /\ UNCHANGED <<adc_val, voltage, batState, batStateLast, state, PORTB, pc,
                   ret, firstZero, armed, voltageDefined, persist>>

\* the environment holds the voltage where every sample classifies to one level:
\* from this Measuring step on (the indicator showing another level), or still
MeasureHold ==
    \E level \in Levels :
       /\ persist = level \/ (persist = NONE /\ Shown \in Levels \ {level})
       /\ persist' = level
       /\ \E raw \in RawCodes, undef \in UndefVolts :
             /\ volt_comp(batState, getVoltage(raw, undef)) = level
             /\ MeasureBody(raw, undef)

Main ==
    \/ InitSample
    \/ InitCommit
    \/ ArmFirst
    \/ ArmSecond
    \/ Measure
    \/ WaitFirst
    \/ WaitSecond
    \/ Change

Next == Main \/ Tick

Spec == Init /\ [][Next]_vars

\* The same program with an environment that may hold the voltage, a main loop
\* that keeps running and a timer that keeps overflowing.
NextHold == Main \/ MeasureHold \/ Tick

FairSpec ==
    /\ Init
    /\ [][NextHold]_vars
    /\ WF_vars(Main \/ MeasureHold)
    /\ WF_vars(Tick)

\* The program alone with a main loop that keeps running and a timer that keeps
\* overflowing; the samples are unconstrained.
LiveSpec == Init /\ [][Next]_vars /\ WF_vars(Main) /\ WF_vars(Tick)

----------------------------------------------------------------------------
(* volt_comp alone: every current level against the voltages of the raw codes and *)
(* the voltages around every threshold                                          *)

TestVolts ==
    {NaN, 0} \cup {getVoltage(r, NaN) : r \in RawCodes \ {0}} \cup
    UNION {{t - d, t + d} :
             t \in {THRES_RED_LOW, THRES_RED_HIGH, THRES_YELLOW_LOW,
                    THRES_YELLOW_HIGH, PLAUSIBLE_MIN, PLAUSIBLE_MAX},
             d \in 0..Spread}

\* batState is a uint8_t: the three levels and one value that is none of them
LevelValues == 0..3

InitComp ==
    /\ batState \in LevelValues
    /\ voltage \in TestVolts
    /\ pc = "call"
    /\ ret = MIN_BAT
    /\ adc_val = 0
    /\ timeout = 0
    /\ batStateLast = MAX_BAT
    /\ state = INIT
    /\ PORTB = PORTB_RESET
    /\ firstZero = FALSE
    /\ intServed = FALSE
    /\ armed = FALSE
    /\ voltageDefined = TRUE
    /\ persist = NONE

CompDraw ==
    /\ pc \in {"call", "ret"}
    /\ batState' \in LevelValues
    /\ voltage' \in TestVolts
    /\ pc' = "call"
    /\ UNCHANGED <<adc_val, timeout, batStateLast, state, PORTB, ret, firstZero,
                   intServed, armed, voltageDefined, persist>>

CompCall ==
    /\ pc = "call"
    /\ ret' = volt_comp(batState, voltage)
    /\ pc' = "ret"
    /\ UNCHANGED <<adc_val, voltage, timeout, batState, batStateLast, state, PORTB,
                   firstZero, intServed, armed, voltageDefined, persist>>

\* the MEASURE case (lines 89-100) entered with any stored level and any
\* recorded last level a uint8_t pair can hold
CompEnter ==
    /\ pc \in {"call", "ret"}
    /\ batState' \in LevelValues
    /\ batStateLast' \in LevelValues
    /\ state' = MEASURE
    /\ pc' = "measure"
    /\ UNCHANGED <<adc_val, voltage, timeout, PORTB, ret, firstZero, intServed,
                   armed, voltageDefined, persist>>

\* back from the MEASURE case to the next call of volt_comp
CompLeave ==
    /\ pc \in {"meas_arm", "switch"}
    /\ batState' \in LevelValues
    /\ voltage' \in TestVolts
    /\ batStateLast' = MAX_BAT
    /\ state' = INIT
    /\ pc' = "call"
    /\ adc_val' = 0
    /\ armed' = FALSE
    /\ voltageDefined' = TRUE
    /\ UNCHANGED <<timeout, PORTB, ret, firstZero, intServed, persist>>

NextComp == CompDraw \/ CompCall \/ CompEnter \/ Measure \/ CompLeave

SpecComp == InitComp /\ [][NextComp]_vars

----------------------------------------------------------------------------
(* Claims *)

\* The classifier's table as the design states it, for a current level and a voltage
ClassifyTable(L, v) ==
    IF L = MAX_BAT
    THEN (IF THRES_RED_LOW < v /\ v < THRES_YELLOW_LOW THEN MED_BAT
          ELSE IF v <= THRES_RED_LOW THEN MIN_BAT ELSE MAX_BAT)
    ELSE IF L = MED_BAT
    THEN (IF v <= THRES_RED_LOW THEN MIN_BAT
          ELSE IF v >= THRES_YELLOW_HIGH THEN MAX_BAT ELSE MED_BAT)
    ELSE (IF THRES_RED_HIGH <= v /\ v < THRES_YELLOW_HIGH THEN MED_BAT
          ELSE IF v >= THRES_YELLOW_HIGH THEN MAX_BAT ELSE MIN_BAT)

\* C1: for every current level in {Low, Medium, High} and every voltage, volt_comp
\* returns the level of the level-specific table, boundaries as written.
C1_VoltCompTable ==
    (pc = "ret" /\ batState \in Levels /\ voltage # NaN)
        => ret = ClassifyTable(batState, voltage)

\* volt_comp was called from Low with exactly RED_HIGH and returned Medium
C1_Witness ==
    pc = "ret" /\ batState = MIN_BAT /\ voltage = THRES_RED_HIGH /\ ret = MED_BAT

\* C2: the indicator shows L, a sample classified to another level and a window
\* was armed, and the sample taken after the window has run down is a voltage
\* that level L would keep: then the machine does not go on to write the other
\* level.
C2_NoisySampleSuppressed ==
    (/\ pc = "switch" /\ state = CHANGING
     /\ armed /\ timeout = 0 /\ voltageDefined
     /\ batState # Shown)
        => volt_comp(Shown, voltage) # Shown

\* C3: a level different from the one shown is committed only after a debounce
\* window has been armed since the last write of the indicator.
C3_ChangeOnlyAfterDebounce ==
    (pc = "switch" /\ state = CHANGING /\ batState # Shown) => armed

\* C4: at every Measuring step, the one after a Debouncing period that has run
\* down included, the level volt_comp switches on is the level the indicator
\* shows.
C4_ClassifierSeededFromShown ==
    ((pc = "measure" \/ (pc = "switch" /\ state = MEASURE)) /\ timeout = 0)
        => batState = Shown

\* C5: the level written when Initializing finishes is the High branch of the
\* classifier applied to the plausible reading that ended the loop.
C5_InitialLevelFromHigh ==
    (pc = "init_arm" /\ voltageDefined) => Shown = volt_comp(MAX_BAT, voltage)

\* C6: once every sample classifies to one level other than the one shown, the
\* indicator eventually shows that level, and while that lasts every change of
\* the indicator is a change to that level (so it changes exactly once).
C6_PersistentChangeCommittedOnce ==
    /\ (persist # NONE) ~> (Shown = persist)
    /\ [][(persist # NONE /\ PORTB' # PORTB) => PORTB' = setLED(persist, PORTB)]_vars

\* the voltage was held at Low while the indicator showed green, and red is shown
C6_Witness ==
    persist = MIN_BAT /\ PORTB = PORT_RED /\ state = MEASURE /\ pc = "switch"

\* C7: the main loop leaves Debouncing only when the countdown is zero.
C7_LeavesDebouncingAtZero ==
    [][(state = WAITING /\ state' = MEASURE) => timeout = 0]_vars

\* C8: the value held in voltage is always one getVoltage defined.
C8_VoltageAlwaysDefined == voltageDefined

\* C9: the indicator is not written before the INIT loop is left, and the
\* reading held when it is written lies within [2.3 V, 4.2 V].
C9_CommitOnPlausibleReading ==
    /\ (pc = "switch" /\ state = INIT) => PORTB = PORTB_RESET
    /\ pc = "init_arm"
         => (voltage # NaN /\ PLAUSIBLE_MIN <= voltage /\ voltage <= PLAUSIBLE_MAX)

\* C10: the indicator output changes only in the step that ends Initializing and
\* in a Committing step; Measuring, Debouncing and the tick leave it as it is.
C10_OnlyCommitWrites ==
    [][PORTB' # PORTB =>
          /\ pc = "switch"
          /\ \/ state = INIT /\ pc' = "init_arm"
             \/ state = CHANGING /\ state' = MEASURE]_vars

\* yellow is held through a Measuring step that found another level, the
\* arming of the window and ticks of the countdown
C10_Witness ==
    /\ PORTB = PORT_YELLOW /\ state = WAITING /\ pc = "switch"
    /\ batState # MED_BAT /\ timeout < TIMEOUT_DEBOUNCE - 2

\* The colour each level maps to, as the design states it
ColourOf(level) ==
    IF level = MAX_BAT THEN PORT_GREEN
    ELSE IF level = MED_BAT THEN PORT_YELLOW
    ELSE PORT_RED

\* C11: from the first indicator write on, the port holds one of the three
\* colour values; every write (the one that ends Initializing, a Committing
\* step) leaves the colour of the level passed to setLED; the three levels give
\* three distinct port values and a value that is no level leaves the port as
\* it is.
C11_OneColourOfLastLevel ==
    /\ []((state # INIT \/ pc # "switch")
            => PORTB \in {PORT_GREEN, PORT_YELLOW, PORT_RED})
    /\ [](/\ Cardinality({setLED(level, PORTB) : level \in Levels}) = 3
          /\ \A other \in LevelValues \ Levels : setLED(other, PORTB) = PORTB)
    /\ [][(/\ pc = "switch"
           /\ \/ state = INIT /\ pc' = "init_arm"
              \/ state = CHANGING /\ state' = MEASURE)
             => (batState \in Levels /\ PORTB' = ColourOf(batState))]_vars

\* red is shown: setLED wrote it for the Low level, and no countdown runs
C11_Witness ==
    /\ PORTB = PORT_RED /\ batState = MIN_BAT /\ state = MEASURE /\ pc = "switch"
    /\ ~armed /\ timeout = 0 /\ adc_val = 420

\* a step of the overflow interrupt: the countdown moves while the main
\* program stays where it is
TickStep == timeout' # timeout /\ pc' = pc

\* what a tick may do: take exactly one off a nonzero countdown, and nothing else
TickFrame ==
    TickStep => (/\ timeout > 0
                 /\ timeout' = timeout - 1
                 /\ UNCHANGED <<state, batState, batStateLast, voltage, PORTB>>)

\* C12: a tick takes exactly one off a nonzero countdown and never moves a
\* countdown of zero, and leaves the machine state, both levels, the voltage
\* and the indicator alone; the countdown never exceeds 0x2F0.
\* The tick part holds; the bound does not: a countdown that left Debouncing
\* early on a torn read still has a low byte above 0xF0 when the next window
\* is stored high byte first.
C12_TickOnlyCountsDown ==
    /\ [][TickFrame]_vars
    /\ [](timeout <= TIMEOUT_DEBOUNCE)

\* volt_comp returns a level for every level and every voltage
VoltCompTotal ==
    \A level \in Levels : \A v \in TestVolts : volt_comp(level, v) \in Levels

\* C13: volt_comp called with a level and any voltage, implausible and
\* undefined ones included, returns a level; so the candidate level, the
\* recorded last level and the level the indicator was written from are levels
\* in every reachable state.
C13_LevelsStayLevels ==
    /\ VoltCompTotal
    /\ batState \in Levels
    /\ batStateLast \in Levels
    /\ (state # INIT \/ pc # "switch") => Shown \in Levels

\* an implausible reading was classified during a Measuring step
C13_Witness ==
    /\ Implausible(voltage) /\ state = CHANGING /\ batState = MIN_BAT
    /\ PORTB = PORT_GREEN

\* C14: from High, every voltage at or above YELLOW_LOW keeps High; from Low,
\* every voltage strictly below RED_HIGH keeps Low.
C14_HysteresisHold ==
    (pc = "ret" /\ voltage # NaN) =>
        /\ (batState = MAX_BAT /\ voltage >= THRES_YELLOW_LOW) => ret = MAX_BAT
        /\ (batState = MIN_BAT /\ voltage < THRES_RED_HIGH) => ret = MIN_BAT

\* volt_comp was called from High with exactly YELLOW_LOW and kept High
C14_Witness ==
    /\ pc = "ret" /\ batState = MAX_BAT /\ voltage = THRES_YELLOW_LOW
    /\ ret = MAX_BAT

\* a step of the MEASURE case: it ends in CHANGING or about to arm the window
MeasureStep ==
    /\ pc = "measure" \/ (pc = "switch" /\ state = MEASURE)
    /\ pc' = "meas_arm" \/ state' = CHANGING

\* C15: a Measuring step whose level equals the level shown goes to Committing
\* and leaves the countdown alone; one whose level differs from the level shown
\* goes on to arm the long window, unless the window armed for that very level
\* has just run, in which case it goes to Committing.
\* The code compares with batStateLast, which is not the level shown after
\* Initializing has looped, nor after a window armed for a level that went away.
C15_MeasureComparesWithShown ==
    [][(MeasureStep /\ voltageDefined') =>
        /\ batState' = Shown => (state' = CHANGING /\ timeout' = timeout)
        /\ batState' # Shown =>
              \/ pc' = "meas_arm"
              \/ armed /\ batState' = batStateLast /\ state' = CHANGING]_vars

\* C16: while the state is WAITING no step of the main program samples or
\* touches the voltage, the candidate level, the recorded last level or the
\* indicator; the state leaves WAITING only for MEASURE, and only when the
\* test of the countdown read zero in both bytes.
C16_DebouncingIsPureWait ==
    [][state = WAITING =>
        /\ UNCHANGED <<adc_val, voltage, batState, batStateLast, PORTB>>
        /\ state' \in {WAITING, MEASURE}
        /\ state' = MEASURE =>
              /\ pc \in {"wait_lo", "wait_hi"}
              /\ firstZero
              /\ (IF pc = "wait_lo" THEN Hi(timeout) ELSE Lo(timeout)) = 0]_vars

\* a Debouncing period ran to zero and the loop is back in MEASURE with the
\* candidate it armed the window for, the indicator still showing the old level
C16_Witness ==
    /\ state = MEASURE /\ pc = "switch" /\ armed /\ timeout = 0
    /\ batState = batStateLast /\ batState # Shown /\ Shown \in Levels

\* C17: the short window 0x10 armed on leaving Initializing delays the first
\* Measuring step: the outcome of a Measuring step is not acted on (CHANGING
\* is not entered without a long window armed since the last write) while a
\* countdown still runs; and every Debouncing period starts with the countdown
\* at 0x2F0.
\* The code never waits for the short window: INIT falls through into MEASURE
\* and nothing but WAITING consults the countdown.
C17_ShortWindowDelaysFirstMeasure ==
    /\ []((pc = "switch" /\ state = CHANGING /\ ~armed /\ voltageDefined)
            => timeout = 0)
    /\ [][(state # WAITING /\ state' = WAITING)
             => timeout' = TIMEOUT_DEBOUNCE]_vars

\* C18: with a stored level that is none of the three, volt_comp returns that
\* same value for every voltage; the MEASURE case entered with such a level and
\* an equal recorded level keeps both, arms nothing and goes to CHANGING.
C18_UnknownLevelUnchanged ==
    /\ []((pc = "ret" /\ batState \notin Levels) => ret = batState)
    /\ [][(MeasureStep /\ batState \notin Levels /\ batStateLast = batState)
            => /\ batState' = batState /\ batStateLast' = batStateLast
               /\ state' = CHANGING /\ pc' = "switch"
               /\ timeout' = timeout /\ armed' = armed]_vars

\* the MEASURE case ran with the stored and the recorded level both 3, on an
\* implausible reading
C18_Witness ==
    /\ pc = "switch" /\ state = CHANGING
    /\ batState \notin Levels /\ batStateLast = batState
    /\ Implausible(voltage)

\* volt_comp applied to its own result at the same voltage returns that result
VoltCompIdempotent ==
    \A level \in Levels : \A v \in TestVolts :
        volt_comp(volt_comp(level, v), v) = volt_comp(level, v)

\* C19: classifying twice at one voltage gives what classifying once gives, for
\* every level and every voltage; so a Measuring step that reads the voltage
\* the previous sample read keeps the candidate level, and unless it is the
\* first one after Initializing (whose recorded last level can be stale) it
\* arms no window and goes to CHANGING.
C19_SettlesInOneStep ==
    /\ []VoltCompIdempotent
    /\ [][(MeasureStep /\ voltage' = voltage)
            => /\ batState' = batState
               /\ pc = "switch" => (state' = CHANGING /\ timeout' = timeout)]_vars

\* the voltage stayed at 3.045 V from the sample that armed the window for
\* Medium to the sample taken after it: Medium is about to be committed
C19_Witness ==
    /\ pc = "switch" /\ state = CHANGING /\ armed /\ timeout = 0
    /\ adc_val = 380 /\ batState = MED_BAT /\ PORTB = PORT_GREEN

\* C20: once the state has left INIT it never is INIT again, and with the tick
\* and the main loop both fair, whenever the state is WAITING or CHANGING it is
\* MEASURE again later: every Debouncing period ends and Measuring recurs,
\* whatever the samples are.
C20_NeverStuck ==
    /\ [][state # INIT => state' # INIT]_vars
    /\ (state \in {WAITING, CHANGING}) ~> (state = MEASURE)

\* a Debouncing period armed for Low under a yellow indicator has ended: the
\* loop is in MEASURE again with the window run down
C20_Witness ==
    /\ state = MEASURE /\ pc = "switch" /\ armed /\ timeout = 0
    /\ batState = MIN_BAT /\ PORTB = PORT_YELLOW

====
